---- MODULE Spec2Model ----
(***************************************************************************)
(* Verification model of maryannemm/alx-backend-user-data.                 *)
(*                                                                         *)
(*   Part I   0x03-user_authentication_service: DB (db.py) and Auth        *)
(*            (auth.py) over the SQLAlchemy `users` table.                 *)
(*   Part II  0x02-Session_authentication: Auth.require_auth.              *)
(*   Part III 0x02-Session_authentication: BasicAuth credential parsing.   *)
(*   Part IV  before_request filters of 0x01 and 0x02 api/v1/app.py, and   *)
(*            BasicAuth.current_user.                                      *)
(*   Part V   0x00-personal_data: hash_password and is_valid over bcrypt.  *)
(*                                                                         *)
(* Part I has four specifications: Spec (the Auth methods called one       *)
(* after another), SpecDB (the DB methods called directly),                *)
(* SpecRegisterRace (register_user in two threads) and SpecTokenRace       *)
(* (update_password and create_session in two threads).                    *)
(*                                                                         *)
(* A Python str that the code indexes (a path, a header, credentials) is   *)
(* the sequence of the code points of its characters, which base64 and     *)
(* UTF-8 decoding compute with; Python None is the value None below for    *)
(* the opaque strings of Part I and PyNone for the others.                 *)
(***************************************************************************)
EXTENDS Integers, Sequences, FiniteSets, TLC

None == "None"

(***************************************************************************)
(* Bounds of the model.                                                    *)
(***************************************************************************)
MaxUsers == 2
MaxUuid == 2

\* Arguments of the Auth calls, the values bcrypt.gensalt() returns and
\* the values uuid4() returns, in the order drawn.
Emails == {"e1", "e2"}
Passwords == {"p1", "p2"}
Salts == {"s1"}
Uuids == <<"u1", "u2", "u3", "u4">>
UserIds == 1..(MaxUsers + 1)

MaxPathLen == 1
MaxRuleLen == 2
MaxRules == 2

\* ord('/'), ord('*'), ord(':')
Slash == 47
Star == 42
Colon == 58

\* The characters paths and rules are drawn from: '/', 'a' and '*'.
PathChars == {Slash, 97}
RuleChars == {Slash, 97, Star}

MaxCredLen == 5

VARIABLES
  users,          \* rows of table `users` in a.db, in insertion order
  nextUuid,       \* number of uuid4() values drawn so far
  ret,            \* the last Auth call: its arguments and its outcome
  sessionsIssued, \* user id -> session ids create_session returned for it
  resetsIssued,   \* user id -> reset tokens get_reset_password_token returned
  lastSet,        \* email -> password of the last register / password update
                  \*          that reported success
  liveSession,    \* user id -> session id of the last create_session for it,
                  \*            None after a destroy_session for it
  liveReset,      \* user id -> reset token of the last
                  \*            get_reset_password_token for it, None once an
                  \*            update_password for it reported success
  consumed,       \* reset tokens an update_password call accepted

  path,           \* require_auth: argument `path`
  excluded_paths, \* require_auth: argument `excluded_paths`
  ra_pc,          \* require_auth: "call" before the call, "done" after it
  ra_ret,         \* require_auth: the value returned
  decoded,        \* extract_user_credentials: its argument
  cred_pc,        \* extract_user_credentials: "call" / "done"
  cred_ret,       \* extract_user_credentials: the pair returned
  app,            \* before_request: the project whose api/v1/app.py runs
  auth_type,      \* before_request: environment variable AUTH_TYPE
  request,        \* before_request: path, Authorization header, cookie
  User_users,     \* models/user.py: the class attribute User.users
  fl_pc,          \* before_request: "call" / "done"
  response,       \* before_request: status and request.current_user

  hp_password,    \* hash_password / is_valid: the password hashed
  hp_other,       \* is_valid: another password, tried against the hashes
  hp_hashes,      \* outcomes of the hash_password(hp_password) calls so far
  hp_salts,       \* number of bcrypt.gensalt() values drawn so far
  hp_checks,      \* the is_valid calls made: hash, password and outcome
  bcrypt_long,    \* what the installed bcrypt does with a password of more
                  \* than 72 bytes: "truncate" (before 5.0) or "ValueError"

  th_call,        \* thread -> the Auth call it runs and its arguments
  th_pc,          \* thread -> the statement it is about to execute
  th_user,        \* thread -> its local variable `user`, None while unbound
  th_issued,      \* thread -> the reset tokens that had been issued when
                  \*           its update_password looked its token up
  th_ret          \* thread -> the outcome of its call once it is "done"

history == <<sessionsIssued, resetsIssued, lastSet, liveSession, liveReset,
             consumed>>

service == <<users, nextUuid, ret, history>>
policy == <<path, excluded_paths, ra_pc, ra_ret>>

basic == <<decoded, cred_pc, cred_ret>>

filter == <<app, auth_type, request, User_users, fl_pc, response>>

hashing == <<hp_password, hp_other, hp_hashes, hp_salts, hp_checks,
             bcrypt_long>>

threads == <<th_call, th_pc, th_user, th_issued, th_ret>>

vars == <<service, policy, basic, filter, hashing, threads>>

(***************************************************************************)
(* Python values.  A value carries its type; a str is the sequence of its  *)
(* characters, bytes the sequence of its bytes, a list of str the sequence *)
(* of those sequences.                                                     *)
(***************************************************************************)
PyNone == [type |-> "NoneType", v |-> <<>>]
PyStr(s) == [type |-> "str", v |-> s]
PyBytes(b) == [type |-> "bytes", v |-> b]
PyList(l) == [type |-> "list", v |-> l]
IsNone(x) == x.type = "NoneType"

SeqsUpTo(S, n) == UNION {[1..k -> S] : k \in 0..n}
Range(s) == {s[i] : i \in DOMAIN s}

\* str.endswith(suffix), str.startswith(prefix)
endswith(s, suffix) ==
  /\ Len(suffix) <= Len(s)
  /\ SubSeq(s, Len(s) - Len(suffix) + 1, Len(s)) = suffix
startswith(s, prefix) ==
  /\ Len(prefix) <= Len(s)
  /\ SubSeq(s, 1, Len(prefix)) = prefix

(***************************************************************************)
(* Part I.  bcrypt                                                         *)
(***************************************************************************)
\* bcrypt reads at most the first 72 bytes of a password.
BcryptMaxLen == 72

\* The bytes of the password that enter the digest.
BcryptKey(password) ==
  IF Len(password) > BcryptMaxLen THEN SubSeq(password, 1, BcryptMaxLen)
  ELSE password

\* bcrypt.hashpw(password, salt) with every salt the same: the digest of the
\* password alone.
hashpwUnsalted(password, salt) ==
  [salt |-> "", digest |-> <<"", BcryptKey(password)>>]

\* bcrypt.hashpw(password, salt): the salt is embedded in the output.
hashpw(password, salt) ==
  [salt |-> salt, digest |-> <<salt, BcryptKey(password)>>]

\* bcrypt.checkpw(password, hashed): re-hash with the embedded salt, compare.
checkpw(password, hashed) == hashpw(password, hashed.salt) = hashed

\* _hash_password(password): bcrypt.gensalt() is the nondeterministic input.
_hash_password(password, salt) == hashpw(password, salt)

(***************************************************************************)
(* Part I.  SQLAlchemy objects and sessions                                *)
(***************************************************************************)
UserAttrs == {"id", "email", "hashed_password", "session_id", "reset_token"}

\* A User instance as the caller holds it.  `session` is the Session the
\* instance is attached to (None once that session was closed); `expired`
\* says that its attributes must be re-loaded through that session.
Instance(row, session, expired) ==
  [attrs |-> row, session |-> session, expired |-> expired]

\* Reading an attribute of an instance: an expired attribute is refreshed
\* through the owning session, which a detached instance does not have.
AttrRead(obj, attr) ==
  IF obj.expired /\ obj.session = None THEN "DetachedInstanceError"
  ELSE obj.attrs[attr]

\* Session.commit(): flush the modified instances attached to the session.
\* `dirty` maps the ids of those instances to their new rows.
SessionCommit(db, dirty) ==
  [i \in DOMAIN db |->
     IF db[i].id \in DOMAIN dirty THEN dirty[db[i].id] ELSE db[i]]

\* No instance is attached to the session.
NoDirty == [i \in {} |-> None]

\* The modified instances a Session flushes on commit, when `obj` is the
\* one instance that was modified: obj if it is attached to that session.
Dirty(session, obj) ==
  IF obj.session = session
    THEN [u \in {obj.attrs.id} |-> [a \in UserAttrs |-> obj.attrs[a]]]
    ELSE NoDirty

(***************************************************************************)
(* Part I.  db.py                                                          *)
(***************************************************************************)
\* find_user_by with Query.first() in place of Query.one(): of several
\* matching rows the first is returned.
FindUserByFirst(db, key, value) ==
  LET hits == {i \in DOMAIN db : db[i][key] = value} IN
  IF hits = {} THEN [exc |-> "NoResultFound", user |-> None]
  ELSE [exc |-> None,
        user |-> Instance(db[CHOOSE i \in hits : \A j \in hits : i <= j],
                          None, FALSE)]

\* DB.find_user_by(**{key: value}): Query.one() over the filtered rows; the
\* session is closed in `finally`, so the instance returned is detached
\* with its attributes loaded.  filter_by(col=None) compiles to IS NULL.
FindUserBy(db, key, value) ==
  LET hits == {i \in DOMAIN db : db[i][key] = value} IN
  IF hits = {} THEN [exc |-> "NoResultFound", user |-> None]
  ELSE IF Cardinality(hits) > 1
    THEN [exc |-> "InvalidRequestError", user |-> None]
  ELSE [exc |-> None,
        user |-> Instance(db[CHOOSE i \in hits : TRUE], None, FALSE)]

\* add_user on a table whose email column is not declared unique.
AddUserNotUnique(db, email, hashed_password) ==
  LET row == [id |-> Len(db) + 1, email |-> email,
              hashed_password |-> hashed_password,
              session_id |-> None, reset_token |-> None]
  IN [db |-> Append(db, row), exc |-> None,
      user |-> Instance(row, None, TRUE)]

\* DB.add_user(email, hashed_password): INSERT and commit.  The commit
\* expires the instance (sessionmaker default expire_on_commit) and the
\* close in `finally` detaches it.  The unique email column rejects a
\* second row with the same email.
AddUser(db, email, hashed_password) ==
  IF \E i \in DOMAIN db : db[i].email = email
    THEN [db |-> db, exc |-> "IntegrityError", user |-> None]
  ELSE LET row == [id |-> Len(db) + 1, email |-> email,
                   hashed_password |-> hashed_password,
                   session_id |-> None, reset_token |-> None]
       IN [db |-> Append(db, row), exc |-> None,
           user |-> Instance(row, None, TRUE)]

\* hasattr(user, key) is true for the mapped columns and for the other
\* attributes a User instance has, such as __tablename__ and metadata.
UserHasAttr == UserAttrs \cup {"__tablename__", "metadata"}

\* The loop `for key, value in kwargs.items()` of update_user from pair i
\* on; kwargs is the sequence of the <<key, value>> pairs in call order.
\* The result is the instance as modified up to the end or to the raise.
RECURSIVE SetAttrs(_, _, _)
SetAttrs(user, kwargs, i) ==
  IF i > Len(kwargs) THEN [exc |-> None, user |-> user]
  ELSE LET key == kwargs[i][1]
           value == kwargs[i][2]
       IN IF key \notin UserHasAttr THEN [exc |-> "ValueError", user |-> user]
          ELSE SetAttrs([user EXCEPT !.attrs =
                           [a \in DOMAIN @ \cup {key} |->
                              IF a = key THEN value ELSE @[a]]],
                        kwargs, i + 1)

\* update_user as it would be with the instance attached to `session` and
\* the loop skipping None values: a token, once stored, is never cleared.
UpdateUserSkipNone(db, user_id, kwargs) ==
  LET found == FindUserBy(db, "id", user_id)
      skip(kv) == IF kv[1] \in {"session_id", "reset_token"}
                    THEN kv[2] = None ELSE FALSE
      keep(kv) == ~skip(kv)
  IN
  IF found.exc # None THEN [db |-> db, exc |-> found.exc]
  ELSE LET set == SetAttrs([found.user EXCEPT !.session = "update_user"],
                           SelectSeq(kwargs, keep), 1)
       IN IF set.exc # None THEN [db |-> db, exc |-> set.exc]
          ELSE [db |-> SessionCommit(db, Dirty("update_user", set.user)),
                exc |-> None]

\* update_user as it would be with the instance attached to `session` and
\* the commit moved to `finally`: what the loop set before a raise is
\* written.
UpdateUserPartial(db, user_id, kwargs) ==
  LET found == FindUserBy(db, "id", user_id) IN
  IF found.exc # None THEN [db |-> db, exc |-> found.exc]
  ELSE LET set == SetAttrs([found.user EXCEPT !.session = "update_user"],
                           kwargs, 1)
       IN [db |-> SessionCommit(db, Dirty("update_user", set.user)),
           exc |-> set.exc]

\* update_user as it would be with the keys checked against the password
\* and token columns instead of hasattr.
UpdateUserRecognized(db, user_id, kwargs) ==
  LET found == FindUserBy(db, "id", user_id) IN
  IF found.exc # None THEN [db |-> db, exc |-> found.exc]
  ELSE IF \E i \in DOMAIN kwargs :
            kwargs[i][1] \notin {"hashed_password", "session_id",
                                 "reset_token"}
    THEN [db |-> db, exc |-> "ValueError"]
  ELSE [db |-> db, exc |-> None]

\* update_user as an UPDATE without its WHERE clause: the values are
\* written to every row.
UpdateUserAllRows(db, user_id, kwargs) ==
  LET found == FindUserBy(db, "id", user_id)
      set(i) == SetAttrs(Instance(db[i], "update_user", FALSE), kwargs, 1)
  IN
  IF found.exc # None THEN [db |-> db, exc |-> found.exc]
  ELSE IF set(1).exc # None THEN [db |-> db, exc |-> set(1).exc]
  ELSE [db |-> [i \in DOMAIN db |->
                  [a \in UserAttrs |-> set(i).user.attrs[a]]],
        exc |-> None]

\* update_user as it would be with the instance loaded through `session`
\* itself: the commit writes what the loop set.
UpdateUserAttached(db, user_id, kwargs) ==
  LET found == FindUserBy(db, "id", user_id) IN
  IF found.exc # None THEN [db |-> db, exc |-> found.exc]
  ELSE LET set == SetAttrs([found.user EXCEPT !.session = "update_user"],
                           kwargs, 1)
       IN IF set.exc # None THEN [db |-> db, exc |-> set.exc]
          ELSE [db |-> SessionCommit(db, Dirty("update_user", set.user)),
                exc |-> None]

\* DB.update_user(user_id, **kwargs).  `session` is a new Session; the user
\* comes from find_user_by, which used and closed a Session of its own, so
\* the instance the loop modifies is attached to no session and
\* session.commit() has nothing to flush.  A raise inside the loop ends in
\* session.rollback().
UpdateUser(db, user_id, kwargs) ==
  LET found == FindUserBy(db, "id", user_id) IN
  IF found.exc # None THEN [db |-> db, exc |-> found.exc]
  ELSE LET set == SetAttrs(found.user, kwargs, 1) IN
       IF set.exc # None THEN [db |-> db, exc |-> set.exc]
       ELSE [db |-> SessionCommit(db, Dirty("update_user", set.user)),
             exc |-> None]

(***************************************************************************)
(* Part I.  auth.py                                                        *)
(***************************************************************************)
\* _generate_uuid(): str(uuid4()), a value never drawn before.
_generate_uuid(n) == Uuids[n + 1]

\* Auth.valid_login(email, password)
valid_login(db, email, password) ==
  LET found == FindUserBy(db, "email", email) IN
  IF found.exc = "NoResultFound" THEN FALSE
  ELSE checkpw(password, found.user.attrs.hashed_password)

\* Auth.get_user_from_session_id(session_id): the email of the user, or None.
get_user_from_session_id(db, session_id) ==
  IF session_id = None THEN None
  ELSE LET found == FindUserBy(db, "session_id", session_id) IN
       IF found.exc = "NoResultFound" THEN None
       ELSE IF found.exc # None THEN found.exc
       ELSE AttrRead(found.user, "email")

\* The outcome of one Auth call, as its caller sees it.
Call(op, args, exc, val) == [op |-> op, args |-> args, exc |-> exc, val |-> val]

NoArgs ==
  [email |-> None, password |-> None, token |-> None, user_id |-> 0,
   key |-> None, kwargs |-> <<>>]

\* register_user as an upsert: for an email already stored the password of
\* its record is replaced before the ValueError is raised.
RegisterUserUpsert(email, password, salt) ==
  LET found == FindUserBy(users, "email", email)
      args == [NoArgs EXCEPT !.email = email, !.password = password]
  IN
  /\ Len(users) < MaxUsers \/ found.exc = None
  /\ IF found.exc = None
       THEN /\ ret' = Call("register_user", args, "ValueError", None)
            /\ users' = [i \in DOMAIN users |->
                           IF users[i].email = email
                             THEN [users[i] EXCEPT !.hashed_password =
                                     _hash_password(password, salt)]
                             ELSE users[i]]
            /\ UNCHANGED lastSet
     ELSE IF found.exc # "NoResultFound"
       THEN /\ ret' = Call("register_user", args, found.exc, None)
            /\ UNCHANGED <<users, lastSet>>
     ELSE LET added == AddUser(users, email, _hash_password(password, salt)) IN
          /\ users' = added.db
          /\ ret' = Call("register_user", args, added.exc, added.user)
          /\ lastSet' = IF added.exc = None
                          THEN [lastSet EXCEPT ![email] = password]
                          ELSE lastSet
  /\ UNCHANGED <<nextUuid, sessionsIssued, resetsIssued, liveSession,
                 liveReset, consumed>>

\* Auth.register_user(email, password)
RegisterUser(email, password, salt) ==
  LET found == FindUserBy(users, "email", email)
      args == [NoArgs EXCEPT !.email = email, !.password = password]
  IN
  /\ Len(users) < MaxUsers \/ found.exc = None
  /\ IF found.exc = None
       THEN /\ ret' = Call("register_user", args, "ValueError", None)
            /\ UNCHANGED <<users, lastSet>>
     ELSE IF found.exc # "NoResultFound"
       THEN /\ ret' = Call("register_user", args, found.exc, None)
            /\ UNCHANGED <<users, lastSet>>
     ELSE LET added == AddUser(users, email, _hash_password(password, salt)) IN
          /\ users' = added.db
          /\ ret' = Call("register_user", args, added.exc, added.user)
          /\ lastSet' = IF added.exc = None
                          THEN [lastSet EXCEPT ![email] = password]
                          ELSE lastSet
  /\ UNCHANGED <<nextUuid, sessionsIssued, resetsIssued, liveSession,
                 liveReset, consumed>>

\* Auth.valid_login(email, password), called.
ValidLogin(email, password) ==
  /\ ret' = Call("valid_login",
                 [NoArgs EXCEPT !.email = email, !.password = password],
                 None, valid_login(users, email, password))
  /\ UNCHANGED <<users, nextUuid, history>>

\* Auth.create_session(email)
CreateSession(email) ==
  LET found == FindUserBy(users, "email", email)
      args == [NoArgs EXCEPT !.email = email]
  IN
  /\ nextUuid < MaxUuid
  /\ IF found.exc = "NoResultFound"
       THEN /\ ret' = Call("create_session", args, None, None)
            /\ UNCHANGED <<users, nextUuid, sessionsIssued, liveSession>>
     ELSE IF found.exc # None
       THEN /\ ret' = Call("create_session", args, found.exc, None)
            /\ UNCHANGED <<users, nextUuid, sessionsIssued, liveSession>>
     ELSE LET sess_id == _generate_uuid(nextUuid)
              uid == AttrRead(found.user, "id")
              upd == UpdateUser(users, uid, << <<"session_id", sess_id>> >>)
          IN
          /\ nextUuid' = nextUuid + 1
          /\ users' = upd.db
          /\ IF upd.exc = "NoResultFound"
               THEN /\ ret' = Call("create_session", args, None, None)
                    /\ UNCHANGED <<sessionsIssued, liveSession>>
             ELSE IF upd.exc # None
               THEN /\ ret' = Call("create_session", args, upd.exc, None)
                    /\ UNCHANGED <<sessionsIssued, liveSession>>
             ELSE /\ ret' = Call("create_session", args, None, sess_id)
                  /\ sessionsIssued' =
                       [sessionsIssued EXCEPT ![uid] = @ \cup {sess_id}]
                  /\ liveSession' = [liveSession EXCEPT ![uid] = sess_id]
  /\ UNCHANGED <<resetsIssued, lastSet, liveReset, consumed>>

\* Auth.get_user_from_session_id(session_id), called.
GetUserFromSessionId(session_id) ==
  LET r == get_user_from_session_id(users, session_id) IN
  /\ ret' = IF r = "InvalidRequestError"
              THEN Call("get_user_from_session_id",
                        [NoArgs EXCEPT !.token = session_id], r, None)
              ELSE Call("get_user_from_session_id",
                        [NoArgs EXCEPT !.token = session_id], None, r)
  /\ UNCHANGED <<users, nextUuid, history>>

\* destroy_session without the `except NoResultFound: pass`: the lookup's
\* NoResultFound reaches the caller.
DestroySessionRaises(user_id) ==
  LET found == FindUserBy(users, "id", user_id)
      args == [NoArgs EXCEPT !.user_id = user_id]
  IN
  /\ IF found.exc # None
       THEN /\ ret' = Call("destroy_session", args, found.exc, None)
            /\ UNCHANGED <<users, liveSession>>
     ELSE LET upd == UpdateUser(users, AttrRead(found.user, "id"),
                                << <<"session_id", None>> >>)
          IN
          /\ users' = upd.db
          /\ ret' = Call("destroy_session", args, upd.exc, None)
          /\ liveSession' = IF upd.exc = None
                              THEN [liveSession EXCEPT ![user_id] = None]
                              ELSE liveSession
  /\ UNCHANGED <<nextUuid, sessionsIssued, resetsIssued, lastSet, liveReset,
                 consumed>>

\* Auth.destroy_session(user_id)
DestroySession(user_id) ==
  LET found == FindUserBy(users, "id", user_id)
      args == [NoArgs EXCEPT !.user_id = user_id]
  IN
  /\ IF found.exc = "NoResultFound"
       THEN /\ ret' = Call("destroy_session", args, None, None)
            /\ UNCHANGED <<users, liveSession>>
     ELSE IF found.exc # None
       THEN /\ ret' = Call("destroy_session", args, found.exc, None)
            /\ UNCHANGED <<users, liveSession>>
     ELSE LET upd == UpdateUser(users, AttrRead(found.user, "id"),
                                << <<"session_id", None>> >>)
          IN
          /\ users' = upd.db
          /\ ret' = Call("destroy_session", args,
                         IF upd.exc = "NoResultFound" THEN None ELSE upd.exc,
                         None)
          /\ liveSession' = IF upd.exc = None
                              THEN [liveSession EXCEPT ![user_id] = None]
                              ELSE liveSession
  /\ UNCHANGED <<nextUuid, sessionsIssued, resetsIssued, lastSet, liveReset,
                 consumed>>

\* Auth.get_reset_password_token(email)
GetResetPasswordToken(email) ==
  LET found == FindUserBy(users, "email", email)
      args == [NoArgs EXCEPT !.email = email]
  IN
  /\ nextUuid < MaxUuid
  /\ IF found.exc = "NoResultFound"
       THEN /\ ret' = Call("get_reset_password_token", args, "ValueError", None)
            /\ UNCHANGED <<users, nextUuid, resetsIssued, liveReset>>
     ELSE IF found.exc # None
       THEN /\ ret' = Call("get_reset_password_token", args, found.exc, None)
            /\ UNCHANGED <<users, nextUuid, resetsIssued, liveReset>>
     ELSE LET reset_token == _generate_uuid(nextUuid)
              uid == AttrRead(found.user, "id")
              upd == UpdateUser(users, uid,
                                << <<"reset_token", reset_token>> >>)
          IN
          /\ nextUuid' = nextUuid + 1
          /\ users' = upd.db
          /\ IF upd.exc = "NoResultFound"
               THEN /\ ret' = Call("get_reset_password_token", args,
                                   "ValueError", None)
                    /\ UNCHANGED <<resetsIssued, liveReset>>
             ELSE IF upd.exc # None
               THEN /\ ret' = Call("get_reset_password_token", args,
                                   upd.exc, None)
                    /\ UNCHANGED <<resetsIssued, liveReset>>
             ELSE /\ ret' = Call("get_reset_password_token", args, None,
                                 reset_token)
                  /\ resetsIssued' =
                       [resetsIssued EXCEPT ![uid] = @ \cup {reset_token}]
                  /\ liveReset' = [liveReset EXCEPT ![uid] = reset_token]
  /\ UNCHANGED <<sessionsIssued, lastSet, liveSession, consumed>>

\* Auth.update_password(reset_token, password)
UpdatePassword(reset_token, password, salt) ==
  LET found == FindUserBy(users, "reset_token", reset_token)
      args == [NoArgs EXCEPT !.token = reset_token, !.password = password]
  IN
  /\ IF found.exc = "NoResultFound"
       THEN /\ ret' = Call("update_password", args, "ValueError", None)
            /\ UNCHANGED <<users, lastSet, liveReset, consumed>>
     ELSE IF found.exc # None
       THEN /\ ret' = Call("update_password", args, found.exc, None)
            /\ UNCHANGED <<users, lastSet, liveReset, consumed>>
     ELSE LET upd == UpdateUser(users, AttrRead(found.user, "id"),
                       << <<"hashed_password",
                            _hash_password(password, salt)>>,
                          <<"reset_token", None>> >>)
              email == AttrRead(found.user, "email")
              uid == AttrRead(found.user, "id")
          IN
          /\ users' = upd.db
          /\ ret' = Call("update_password",
                         [args EXCEPT !.email = email],
                         IF upd.exc = "NoResultFound" THEN "ValueError"
                                                      ELSE upd.exc,
                         None)
          /\ lastSet' = IF upd.exc = None
                          THEN [lastSet EXCEPT ![email] = password]
                          ELSE lastSet
          /\ liveReset' = IF upd.exc = None
                            THEN [liveReset EXCEPT ![uid] = None]
                            ELSE liveReset
          /\ consumed' = IF upd.exc = None
                           THEN consumed \cup {reset_token}
                           ELSE consumed
  /\ UNCHANGED <<nextUuid, sessionsIssued, resetsIssued, liveSession>>

(***************************************************************************)
(* Part I.  The authentication service as a state machine                  *)
(***************************************************************************)
\* No call of the other parts is in progress.
PolicyIdle ==
  /\ path = PyNone
  /\ excluded_paths = PyNone
  /\ ra_pc = "idle"
  /\ ra_ret = TRUE

\* No user is stored and no Auth call was made.
ServiceInit ==
  /\ users = <<>>
  /\ nextUuid = 0
  /\ ret = Call("init", NoArgs, None, None)
  /\ sessionsIssued = [u \in UserIds |-> {}]
  /\ resetsIssued = [u \in UserIds |-> {}]
  /\ lastSet = [e \in Emails |-> None]
  /\ liveSession = [u \in UserIds |-> None]
  /\ liveReset = [u \in UserIds |-> None]
  /\ consumed = {}

BasicIdle ==
  /\ decoded = PyNone
  /\ cred_pc = "idle"
  /\ cred_ret = <<PyNone, PyNone>>

FilterIdle ==
  /\ app = "none"
  /\ auth_type = "none"
  /\ request = [path |-> PyNone, Authorization |-> PyNone, cookie |-> PyNone]
  /\ User_users = <<>>
  /\ fl_pc = "idle"
  /\ response = [status |-> "none", current_user |-> PyNone]

HashingIdle ==
  /\ hp_password = <<>>
  /\ hp_other = <<>>
  /\ hp_hashes = <<>>
  /\ hp_salts = 0
  /\ hp_checks = {}
  /\ bcrypt_long = "truncate"

\* The threads a specification does not run.
Threads == {1, 2}
ThreadsIdle ==
  /\ th_call = [t \in Threads |-> Call("none", NoArgs, None, None)]
  /\ th_pc = [t \in Threads |-> "idle"]
  /\ th_user = [t \in Threads |-> None]
  /\ th_issued = [t \in Threads |-> {}]
  /\ th_ret = [t \in Threads |-> Call("none", NoArgs, None, None)]

\* The parts a specification of one part leaves idle.
OthersIdle == HashingIdle /\ ThreadsIdle

\* Auth(): DB() creates the table.
Init == ServiceInit /\ PolicyIdle /\ BasicIdle /\ FilterIdle /\ OthersIdle

TokenArgs == {Uuids[i] : i \in 1..MaxUuid} \cup {None}

\* The parts the Auth calls leave alone.
others == <<policy, basic, filter, hashing, threads>>

Next ==
  \/ \E e \in Emails, p \in Passwords, s \in Salts :
       RegisterUser(e, p, s) /\ UNCHANGED others
  \/ \E e \in Emails, p \in Passwords :
       ValidLogin(e, p) /\ UNCHANGED others
  \/ \E e \in Emails : CreateSession(e) /\ UNCHANGED others
  \/ \E t \in TokenArgs : GetUserFromSessionId(t) /\ UNCHANGED others
  \/ \E u \in UserIds : DestroySession(u) /\ UNCHANGED others
  \/ \E e \in Emails : GetResetPasswordToken(e) /\ UNCHANGED others
  \/ \E t \in TokenArgs, p \in Passwords, s \in Salts :
       UpdatePassword(t, p, s) /\ UNCHANGED others

Spec == Init /\ [][Next]_vars

(***************************************************************************)
(* Part I.  The DB class called directly                                   *)
(***************************************************************************)
MaxKwargs == 2

\* DB.add_user(email, hashed_password), called.
AddUserCall(email, hashed_password) ==
  LET added == AddUser(users, email, hashed_password) IN
  /\ Len(users) < MaxUsers \/ added.exc # None
  /\ users' = added.db
  /\ ret' = Call("add_user", [NoArgs EXCEPT !.email = email], added.exc,
                 added.user)
  /\ UNCHANGED <<nextUuid, history>>

\* DB.find_user_by(**{key: value}), called.
FindUserByCall(key, value) ==
  LET found == FindUserBy(users, key, value)
      args == IF key = "id" THEN [NoArgs EXCEPT !.key = key, !.user_id = value]
              ELSE IF key = "email"
                THEN [NoArgs EXCEPT !.key = key, !.email = value]
              ELSE [NoArgs EXCEPT !.key = key, !.token = value]
  IN
  /\ ret' = Call("find_user_by", args, found.exc, found.user)
  /\ UNCHANGED <<users, nextUuid, history>>

\* DB.update_user(user_id, **kwargs), called.
UpdateUserCall(user_id, kwargs) ==
  LET upd == UpdateUser(users, user_id, kwargs) IN
  /\ users' = upd.db
  /\ ret' = Call("update_user",
                 [NoArgs EXCEPT !.user_id = user_id, !.kwargs = kwargs],
                 upd.exc, None)
  /\ UNCHANGED <<nextUuid, history>>

\* The keys find_user_by is called with and the values for each.
FindKeys == {"id", "email", "session_id", "reset_token"}
FindValues(key) ==
  IF key = "id" THEN UserIds
  ELSE IF key = "email" THEN Emails
  ELSE TokenArgs

\* The keyword arguments update_user is called with: columns, an attribute
\* that is no column, and a name a User does not have; no key twice.
KwargPairs ==
  { <<"session_id", "u1">>, <<"email", "e2">>, <<"id", 3>>,
    <<"__tablename__", "t">>, <<"nickname", "n">> }
KwargArgs ==
  {k \in SeqsUpTo(KwargPairs, MaxKwargs) :
     \A i, j \in DOMAIN k : i # j => k[i][1] # k[j][1]}

NextDB ==
  \/ \E e \in Emails, p \in Passwords, s \in Salts :
       AddUserCall(e, _hash_password(p, s)) /\ UNCHANGED others
  \/ \E k \in FindKeys : \E v \in FindValues(k) :
       FindUserByCall(k, v) /\ UNCHANGED others
  \/ \E u \in UserIds, k \in KwargArgs :
       UpdateUserCall(u, k) /\ UNCHANGED others

SpecDB == Init /\ [][NextDB]_vars

(***************************************************************************)
(* Part I.  Auth calls running in concurrent threads                       *)
(***************************************************************************)
\* Each thread runs one Auth method on the shared DB; a step of a thread
\* is one DB method call, which SQLite executes as one transaction.

\* register_user, line 59: self._db.find_user_by(email=email).
RegisterFind(t) ==
  LET found == FindUserBy(users, "email", th_call[t].args.email) IN
  /\ th_call[t].op = "register_user"
  /\ th_pc[t] = "find_user_by"
  /\ IF found.exc = "NoResultFound"
       THEN /\ th_pc' = [th_pc EXCEPT ![t] = "add_user"]
            /\ UNCHANGED th_ret
       ELSE /\ th_pc' = [th_pc EXCEPT ![t] = "done"]
            /\ th_ret' = [th_ret EXCEPT ![t] =
                            Call("register_user", th_call[t].args,
                                 IF found.exc = None THEN "ValueError"
                                 ELSE found.exc,
                                 None)]
  /\ UNCHANGED <<th_call, th_user, th_issued, service, policy, basic, filter,
                 hashing>>

\* register_user, line 62: return self._db.add_user(email, _hash_password(
\* password)).
RegisterAdd(t, salt) ==
  LET args == th_call[t].args
      added == AddUser(users, args.email, _hash_password(args.password, salt))
  IN
  /\ th_call[t].op = "register_user"
  /\ th_pc[t] = "add_user"
  /\ users' = added.db
  /\ th_pc' = [th_pc EXCEPT ![t] = "done"]
  /\ th_ret' = [th_ret EXCEPT ![t] =
                  Call("register_user", args, added.exc, added.user)]
  /\ UNCHANGED <<th_call, th_user, th_issued, nextUuid, ret, history,
                 policy, basic, filter, hashing>>

\* Every thread is about to call register_user on a store that is empty.
InitRegisterRace ==
  /\ ServiceInit
  /\ PolicyIdle
  /\ BasicIdle
  /\ FilterIdle
  /\ HashingIdle
  /\ th_call \in [Threads ->
                    {Call("register_user",
                          [NoArgs EXCEPT !.email = e, !.password = p],
                          None, None) : e \in Emails, p \in Passwords}]
  /\ th_pc = [t \in Threads |-> "find_user_by"]
  /\ th_user = [t \in Threads |-> None]
  /\ th_issued = [t \in Threads |-> {}]
  /\ th_ret = [t \in Threads |-> Call("none", NoArgs, None, None)]

NextRegisterRace ==
  \/ \E t \in Threads : RegisterFind(t)
  \/ \E t \in Threads, s \in Salts : RegisterAdd(t, s)

SpecRegisterRace == InitRegisterRace /\ [][NextRegisterRace]_vars

\* update_password, line 151: user = self._db.find_user_by(reset_token=
\* reset_token).
UpdatePasswordFind(t) ==
  LET found == FindUserBy(users, "reset_token", th_call[t].args.token) IN
  /\ th_call[t].op = "update_password"
  /\ th_pc[t] = "find_user_by"
  /\ IF found.exc = None
       THEN /\ th_user' = [th_user EXCEPT ![t] = found.user]
            /\ th_pc' = [th_pc EXCEPT ![t] = "update_user"]
            /\ UNCHANGED th_ret
       ELSE /\ th_pc' = [th_pc EXCEPT ![t] = "done"]
            /\ th_ret' = [th_ret EXCEPT ![t] =
                            Call("update_password", th_call[t].args,
                                 IF found.exc = "NoResultFound"
                                   THEN "ValueError" ELSE found.exc,
                                 None)]
            /\ UNCHANGED th_user
  /\ th_issued' = [th_issued EXCEPT ![t] =
                     UNION {resetsIssued[u] : u \in UserIds}]
  /\ UNCHANGED <<th_call, service, policy, basic, filter, hashing>>

\* update_password, lines 152-154: self._db.update_user(user.id,
\* hashed_password=_hash_password(password), reset_token=None).
UpdatePasswordUpdate(t, salt) ==
  LET args == th_call[t].args
      uid == AttrRead(th_user[t], "id")
      email == AttrRead(th_user[t], "email")
      upd == UpdateUser(users, uid,
               << <<"hashed_password", _hash_password(args.password, salt)>>,
                  <<"reset_token", None>> >>)
  IN
  /\ th_call[t].op = "update_password"
  /\ th_pc[t] = "update_user"
  /\ users' = upd.db
  /\ th_pc' = [th_pc EXCEPT ![t] = "done"]
  /\ th_ret' = [th_ret EXCEPT ![t] =
                  Call("update_password", [args EXCEPT !.email = email],
                       IF upd.exc = "NoResultFound" THEN "ValueError"
                                                    ELSE upd.exc,
                       None)]
  /\ lastSet' = IF upd.exc = None
                  THEN [lastSet EXCEPT ![email] = args.password]
                  ELSE lastSet
  /\ liveReset' = IF upd.exc = None
                    THEN [liveReset EXCEPT ![uid] = None]
                    ELSE liveReset
  /\ consumed' = IF upd.exc = None
                   THEN consumed \cup {args.token}
                   ELSE consumed
  /\ UNCHANGED <<th_call, th_user, th_issued, nextUuid, ret, sessionsIssued,
                 resetsIssued, liveSession, policy, basic, filter, hashing>>

\* create_session, line 88: user = self._db.find_user_by(email=email).
CreateSessionFind(t) ==
  LET found == FindUserBy(users, "email", th_call[t].args.email) IN
  /\ th_call[t].op = "create_session"
  /\ th_pc[t] = "find_user_by"
  /\ IF found.exc = None
       THEN /\ th_user' = [th_user EXCEPT ![t] = found.user]
            /\ th_pc' = [th_pc EXCEPT ![t] = "update_user"]
            /\ UNCHANGED th_ret
       ELSE /\ th_pc' = [th_pc EXCEPT ![t] = "done"]
            /\ th_ret' = [th_ret EXCEPT ![t] =
                            Call("create_session", th_call[t].args,
                                 IF found.exc = "NoResultFound"
                                   THEN None ELSE found.exc,
                                 None)]
            /\ UNCHANGED th_user
  /\ UNCHANGED <<th_call, th_issued, service, policy, basic, filter,
                 hashing>>

\* create_session, lines 89-91: sess_id = _generate_uuid();
\* self._db.update_user(user.id, session_id=sess_id); return sess_id.
CreateSessionUpdate(t) ==
  LET args == th_call[t].args
      uid == AttrRead(th_user[t], "id")
      sess_id == _generate_uuid(nextUuid)
      upd == UpdateUser(users, uid, << <<"session_id", sess_id>> >>)
  IN
  /\ th_call[t].op = "create_session"
  /\ th_pc[t] = "update_user"
  /\ nextUuid < MaxUuid
  /\ nextUuid' = nextUuid + 1
  /\ users' = upd.db
  /\ th_pc' = [th_pc EXCEPT ![t] = "done"]
  /\ th_ret' = [th_ret EXCEPT ![t] =
                  IF upd.exc = None
                    THEN Call("create_session", args, None, sess_id)
                  ELSE IF upd.exc = "NoResultFound"
                    THEN Call("create_session", args, None, None)
                  ELSE Call("create_session", args, upd.exc, None)]
  /\ sessionsIssued' = IF upd.exc = None
                         THEN [sessionsIssued EXCEPT ![uid] = @ \cup {sess_id}]
                         ELSE sessionsIssued
  /\ liveSession' = IF upd.exc = None
                      THEN [liveSession EXCEPT ![uid] = sess_id]
                      ELSE liveSession
  /\ UNCHANGED <<th_call, th_user, th_issued, ret, resetsIssued, lastSet,
                 liveReset, consumed, policy, basic, filter, hashing>>

WithEmailIn(db, e) == \E i \in DOMAIN db : db[i].email = e

\* The stores register_user leaves: users with distinct emails, ids in
\* insertion order, no session id and no reset token.
Registered(emails, password, salt) ==
  [i \in DOMAIN emails |->
     [id |-> i, email |-> emails[i],
      hashed_password |-> _hash_password(password, salt),
      session_id |-> None, reset_token |-> None]]

RegisteredPassword == "p1"
RegisteredStores ==
  {Registered(es, RegisteredPassword, "s1") :
     es \in {l \in SeqsUpTo(Emails, MaxUsers) :
               /\ l # <<>>
               /\ \A i, j \in DOMAIN l : i # j => l[i] # l[j]}}

\* The calls the threads make.
TokenCalls ==
  {Call("update_password", [NoArgs EXCEPT !.token = tk, !.password = p],
        None, None) : tk \in TokenArgs, p \in Passwords}
    \cup {Call("create_session", [NoArgs EXCEPT !.email = e], None, None) :
            e \in Emails}

\* Users are registered; every thread is about to call update_password or
\* create_session.  get_reset_password_token is called from the main
\* thread at any moment.
InitTokenRace ==
  /\ users \in RegisteredStores
  /\ nextUuid = 0
  /\ ret = Call("init", NoArgs, None, None)
  /\ sessionsIssued = [u \in UserIds |-> {}]
  /\ resetsIssued = [u \in UserIds |-> {}]
  /\ lastSet = [e \in Emails |->
                  IF WithEmailIn(users, e) THEN RegisteredPassword ELSE None]
  /\ liveSession = [u \in UserIds |-> None]
  /\ liveReset = [u \in UserIds |-> None]
  /\ consumed = {}
  /\ PolicyIdle
  /\ BasicIdle
  /\ FilterIdle
  /\ HashingIdle
  /\ th_call \in [Threads -> TokenCalls]
  /\ th_pc = [t \in Threads |-> "find_user_by"]
  /\ th_user = [t \in Threads |-> None]
  /\ th_issued = [t \in Threads |-> {}]
  /\ th_ret = [t \in Threads |-> Call("none", NoArgs, None, None)]

NextTokenRace ==
  \/ \E e \in Emails : GetResetPasswordToken(e) /\ UNCHANGED others
  \/ \E t \in Threads : UpdatePasswordFind(t)
  \/ \E t \in Threads, s \in Salts : UpdatePasswordUpdate(t, s)
  \/ \E t \in Threads : CreateSessionFind(t)
  \/ \E t \in Threads : CreateSessionUpdate(t)

SpecTokenRace == InitTokenRace /\ [][NextTokenRace]_vars

(***************************************************************************)
(* Part II.  api/v1/auth/auth.py: Auth.require_auth                        *)
(***************************************************************************)
\* The loop as it would be with `return True` inside the loop body: the
\* first rule alone decides.
ScanExcludedFirstRule(p, excluded, i) ==
  IF i > Len(excluded) THEN TRUE
  ELSE LET excluded_path == excluded[i] IN
       IF endswith(excluded_path, <<Star>>)
         THEN ~startswith(p, SubSeq(excluded_path, 1, Len(excluded_path) - 1))
       ELSE p # excluded_path

\* The `for excluded_path in excluded_paths` loop from index i on, for a
\* path that already carries its trailing slash.
RECURSIVE ScanExcluded(_, _, _)
ScanExcluded(p, excluded, i) ==
  IF i > Len(excluded) THEN TRUE
  ELSE LET excluded_path == excluded[i] IN
       IF endswith(excluded_path, <<Star>>)
         THEN IF startswith(p, SubSeq(excluded_path, 1, Len(excluded_path) - 1))
                THEN FALSE
                ELSE ScanExcluded(p, excluded, i + 1)
       ELSE IF p = excluded_path THEN FALSE
       ELSE ScanExcluded(p, excluded, i + 1)

\* The path left as it came, no slash appended.
AppendSlashNever(p) == p

\* `if not path.endswith('/'): path += '/'`
AppendSlash(p) == IF endswith(p, <<Slash>>) THEN p ELSE Append(p, Slash)

\* Auth.require_auth(path, excluded_paths)
require_auth(pth, excluded) ==
  IF IsNone(pth) \/ IsNone(excluded) \/ Len(excluded.v) = 0 THEN TRUE
  ELSE ScanExcluded(AppendSlash(pth.v), excluded.v, 1)

\* One call of require_auth on the arguments chosen initially.
RequireAuthCall ==
  /\ ra_pc = "call"
  /\ ra_ret' = require_auth(path, excluded_paths)
  /\ ra_pc' = "done"
  /\ UNCHANGED <<path, excluded_paths, service, basic, filter, hashing,
                 threads>>

PathArgs == {PyNone} \cup {PyStr(s) : s \in SeqsUpTo(PathChars, MaxPathLen)}
RuleArgs == SeqsUpTo(RuleChars, MaxRuleLen)
ExcludedArgs == {PyNone} \cup {PyList(l) : l \in SeqsUpTo(RuleArgs, MaxRules)}

InitRequireAuth ==
  /\ ServiceInit
  /\ OthersIdle
  /\ BasicIdle
  /\ FilterIdle
  /\ path \in PathArgs
  /\ excluded_paths \in ExcludedArgs
  /\ ra_pc = "call"
  /\ ra_ret = TRUE

NextRequireAuth == RequireAuthCall

SpecRequireAuth == InitRequireAuth /\ [][NextRequireAuth]_vars

(***************************************************************************)
(* Part III.  api/v1/auth/basic_auth.py: credential parsing                *)
(***************************************************************************)
\* The characters the credentials are drawn from: 'a', 'b' and ':'.
CredChars == {97, 98, Colon}

\* s.rsplit(sep, 1): split at the last separator.
SplitLast(s, sep) ==
  IF sep \notin Range(s) THEN <<s>>
  ELSE LET k == CHOOSE i \in DOMAIN s :
                  s[i] = sep /\ \A j \in DOMAIN s : j > i => s[j] # sep
       IN <<SubSeq(s, 1, k - 1), SubSeq(s, k + 1, Len(s))>>

\* s.split(sep, 1): at most one split, at the first separator.
SplitOnce(s, sep) ==
  IF sep \notin Range(s) THEN <<s>>
  ELSE LET k == CHOOSE i \in DOMAIN s :
                  s[i] = sep /\ \A j \in DOMAIN s : j < i => s[j] # sep
       IN <<SubSeq(s, 1, k - 1), SubSeq(s, k + 1, Len(s))>>

\* BasicAuth.extract_user_credentials(decoded_base64_authorization_header)
extract_user_credentials(d) ==
  IF IsNone(d) \/ d.type # "str" THEN <<PyNone, PyNone>>
  ELSE IF Colon \notin Range(d.v) THEN <<PyNone, PyNone>>
  ELSE LET parts == SplitOnce(d.v, Colon) IN
       <<PyStr(parts[1]), PyStr(parts[2])>>

\* One call of extract_user_credentials on the argument chosen initially.
ExtractUserCredentialsCall ==
  /\ cred_pc = "call"
  /\ cred_ret' = extract_user_credentials(decoded)
  /\ cred_pc' = "done"
  /\ UNCHANGED <<decoded, service, policy, filter, hashing, threads>>

DecodedArgs ==
  {PyNone} \cup {PyStr(s) : s \in SeqsUpTo(CredChars, MaxCredLen)}
           \cup {PyBytes(s) : s \in SeqsUpTo(CredChars, MaxCredLen)}

InitCredentials ==
  /\ ServiceInit
  /\ OthersIdle
  /\ PolicyIdle
  /\ FilterIdle
  /\ decoded \in DecodedArgs
  /\ cred_pc = "call"
  /\ cred_ret = <<PyNone, PyNone>>

NextCredentials == ExtractUserCredentialsCall

SpecCredentials == InitCredentials /\ [][NextCredentials]_vars

(***************************************************************************)
(* Part IV.  base64.b64decode and bytes.decode('utf-8')                    *)
(***************************************************************************)
Failed == [ok |-> FALSE, v |-> <<>>]
Ok(v) == [ok |-> TRUE, v |-> v]

\* The value of a character in the base64 alphabet A-Z a-z 0-9 + /, and 64
\* for any other character.
B64Value(c) ==
  IF c \in 65..90 THEN c - 65
  ELSE IF c \in 97..122 THEN c - 71
  ELSE IF c \in 48..57 THEN c + 4
  ELSE IF c = 43 THEN 62
  ELSE IF c = 47 THEN 63
  ELSE 64

\* binascii.a2b_base64 (not strict) from character i on: characters outside
\* the alphabet are skipped, a completed '=' padding ends the input, and
\* data that stops inside a quad is an error.
RECURSIVE A2bBase64(_, _, _, _, _, _)
A2bBase64(s, i, quad_pos, leftchar, pads, out) ==
  IF i > Len(s) THEN (IF quad_pos # 0 THEN Failed ELSE Ok(out))
  ELSE IF s[i] = 61
    THEN IF quad_pos >= 2 /\ quad_pos + pads + 1 >= 4 THEN Ok(out)
         ELSE A2bBase64(s, i + 1, quad_pos, leftchar,
                        IF quad_pos >= 2 THEN pads + 1 ELSE pads, out)
  ELSE LET this_ch == B64Value(s[i]) IN
       IF this_ch >= 64
         THEN A2bBase64(s, i + 1, quad_pos, leftchar, pads, out)
       ELSE IF quad_pos = 0
         THEN A2bBase64(s, i + 1, 1, this_ch, 0, out)
       ELSE IF quad_pos = 1
         THEN A2bBase64(s, i + 1, 2, this_ch % 16, 0,
                        Append(out, leftchar * 4 + this_ch \div 16))
       ELSE IF quad_pos = 2
         THEN A2bBase64(s, i + 1, 3, this_ch % 4, 0,
                        Append(out, leftchar * 16 + this_ch \div 4))
       ELSE A2bBase64(s, i + 1, 0, 0, 0, Append(out, leftchar * 64 + this_ch))

\* base64.b64decode(s) for a str s: s must be ASCII.
b64decode(s) ==
  IF \E i \in DOMAIN s : s[i] > 127 THEN Failed
  ELSE A2bBase64(s, 1, 0, 0, 0, <<>>)

\* bytes.decode('utf-8') from byte i on (strict).
RECURSIVE Utf8Decode(_, _, _)
Utf8Decode(b, i, out) ==
  IF i > Len(b) THEN Ok(out)
  ELSE LET c == b[i]
           cont(k) == i + k <= Len(b) /\ b[i + k] \in 128..191
           low(k) == b[i + k] - 128
       IN
       IF c < 128 THEN Utf8Decode(b, i + 1, Append(out, c))
       ELSE IF c \in 194..223 /\ cont(1)
         THEN Utf8Decode(b, i + 2, Append(out, (c - 192) * 64 + low(1)))
       ELSE IF /\ c \in 224..239 /\ cont(1) /\ cont(2)
               /\ (c = 224 => b[i + 1] >= 160)
               /\ (c = 237 => b[i + 1] <= 159)
         THEN Utf8Decode(b, i + 3,
                Append(out, (c - 224) * 4096 + low(1) * 64 + low(2)))
       ELSE IF /\ c \in 240..244 /\ cont(1) /\ cont(2) /\ cont(3)
               /\ (c = 240 => b[i + 1] >= 144)
               /\ (c = 244 => b[i + 1] <= 143)
         THEN Utf8Decode(b, i + 4,
                Append(out, (c - 240) * 262144 + low(1) * 4096
                            + low(2) * 64 + low(3)))
       ELSE Failed

(***************************************************************************)
(* Part IV.  models/user.py                                                *)
(***************************************************************************)
\* hashlib.md5(pwd.encode()).hexdigest(): one digest per input, written as
\* a string that starts with a character no input of the model contains.
md5_hexdigest(s) == <<0>> \o s

\* A User instance.
UserObj(email, password) ==
  [type |-> "User", email |-> email, _password |-> password]

\* User(email, password): __init__ stores the password as given.
NewUser(email, password) == UserObj(email, password)

\* user.password = pwd: the setter stores the digest.
SetPassword(user, pwd) ==
  [user EXCEPT !._password = PyStr(md5_hexdigest(pwd.v))]

\* user.is_valid_password(pwd)
is_valid_password(user, pwd) ==
  /\ user._password.type = "str"
  /\ md5_hexdigest(pwd.v) = user._password.v

\* User.search({'email': email}): the users with that email, in order.
RECURSIVE search(_, _)
search(all, email) ==
  IF all = <<>> THEN <<>>
  ELSE LET rest == search(Tail(all), email)
           user == Head(all)
       IN IF user.email.type = "str" /\ user.email.v = email.v
            THEN <<user>> \o rest
            ELSE rest

(***************************************************************************)
(* Part IV.  api/v1/auth: Auth and BasicAuth                               *)
(***************************************************************************)
\* 'Basic '
BasicPrefix == <<66, 97, 115, 105, 99, 32>>

\* The methods an instance of each class has.
Methods(cls) ==
  IF cls = "BasicAuth"
    THEN {"require_auth", "authorization_header", "current_user",
          "extract_base64_authorization_header",
          "decode_base64_authorization_header", "extract_user_credentials",
          "user_object_from_credentials"}
    ELSE {"require_auth", "authorization_header", "current_user"}

\* Auth.authorization_header(request): request.headers.get('Authorization')
authorization_header(req) == req.Authorization

\* BasicAuth.extract_base64_authorization_header(authorization_header)
extract_base64_authorization_header(h) ==
  IF IsNone(h) \/ h.type # "str" THEN PyNone
  ELSE IF ~startswith(h.v, BasicPrefix) THEN PyNone
  ELSE PyStr(SplitOnce(h.v, 32)[2])

\* BasicAuth.decode_base64_authorization_header(base64_authorization_header)
decode_base64_authorization_header(b) ==
  IF IsNone(b) \/ b.type # "str" THEN PyNone
  ELSE LET decoded_bytes == b64decode(b.v) IN
       IF ~decoded_bytes.ok THEN PyNone
       ELSE LET text == Utf8Decode(decoded_bytes.v, 1, <<>>) IN
            IF text.ok THEN PyStr(text.v) ELSE PyNone

\* user_object_from_credentials without the is_valid_password test: the
\* first user with the email is returned.
user_object_any_password(all, user_email, user_pwd) ==
  IF IsNone(user_email) \/ user_email.type # "str" THEN PyNone
  ELSE IF IsNone(user_pwd) \/ user_pwd.type # "str" THEN PyNone
  ELSE LET found == search(all, user_email) IN
       IF found = <<>> THEN PyNone ELSE found[1]

\* BasicAuth.user_object_from_credentials(user_email, user_pwd)
user_object_from_credentials(all, user_email, user_pwd) ==
  IF IsNone(user_email) \/ user_email.type # "str" THEN PyNone
  ELSE IF IsNone(user_pwd) \/ user_pwd.type # "str" THEN PyNone
  ELSE LET found == search(all, user_email) IN
       IF found = <<>> THEN PyNone
       ELSE IF is_valid_password(found[1], user_pwd) THEN found[1]
       ELSE PyNone

\* auth.current_user(request): Auth returns None; BasicAuth resolves the
\* Authorization header.
current_user(cls, all, req) ==
  IF cls # "BasicAuth" THEN PyNone
  ELSE LET auth_header == authorization_header(req) IN
       IF IsNone(auth_header) THEN PyNone
       ELSE LET base64_header ==
                  extract_base64_authorization_header(auth_header)
                decoded_header ==
                  decode_base64_authorization_header(base64_header)
                creds == extract_user_credentials(decoded_header)
            IN user_object_from_credentials(all, creds[1], creds[2])

(***************************************************************************)
(* Part IV.  api/v1/app.py: before_request                                 *)
(***************************************************************************)
\* 0x01: excluded_paths of before_request.
Excluded0x01 ==
  << <<47, 97, 112, 105, 47, 118, 49, 47, 115, 116, 97, 116, 117, 115, 47>>,
     <<47, 97, 112, 105, 47, 118, 49, 47, 117, 110, 97, 117, 116, 104, 111, 114, 105, 122, 101, 100, 47>>,
     <<47, 97, 112, 105, 47, 118, 49, 47, 102, 111, 114, 98, 105, 100, 100, 101, 110, 47>> >>

\* 0x02: excluded_paths of before_request; the last one is
\* '/api/v1/auth_session/login/'.
Excluded0x02 ==
  Excluded0x01 \o
  << <<47, 97, 112, 105, 47, 118, 49, 47, 97, 117, 116, 104, 95, 115, 101, 115, 115, 105, 111, 110, 47, 108, 111, 103, 105, 110, 47>> >>

\* The class of the module-level `auth`, "None" when auth is None.  0x01
\* falls back to Auth().  0x02 leaves auth None unless AUTH_TYPE names a
\* class.
AuthClass(a, type) ==
  IF type = "basic_auth" THEN "BasicAuth"
  ELSE IF a = "0x01" THEN "Auth"
  ELSE None

Respond(status, user) == [status |-> status, current_user |-> user]

\* 0x01-Basic_authentication/api/v1/app.py: before_request.  "pass" is the
\* request going on to its view.
BeforeRequest0x01(cls, all, req) ==
  IF cls = None THEN Respond("pass", PyNone)
  ELSE IF ~require_auth(req.path, PyList(Excluded0x01))
    THEN Respond("pass", PyNone)
  ELSE IF IsNone(authorization_header(req)) THEN Respond("401", PyNone)
  ELSE IF IsNone(current_user(cls, all, req)) THEN Respond("403", PyNone)
  ELSE Respond("pass", PyNone)

\* 0x02-Session_authentication/api/v1/app.py: before_request.  Neither
\* Auth nor BasicAuth defines session_cookie, so evaluating
\* auth.session_cookie raises AttributeError, which Flask answers with 500.
BeforeRequest0x02(cls, all, req) ==
  IF cls = None THEN Respond("pass", PyNone)
  ELSE IF ~require_auth(req.path, PyList(Excluded0x02))
    THEN Respond("pass", PyNone)
  ELSE IF IsNone(authorization_header(req))
    THEN IF "session_cookie" \notin Methods(cls)
           THEN Respond("500", PyNone)
           ELSE Respond("401", PyNone)
  ELSE Respond("pass", current_user(cls, all, req))

\* One request through the filter of the running app.
BeforeRequest ==
  /\ fl_pc = "call"
  /\ response' =
       IF app = "0x01"
         THEN BeforeRequest0x01(AuthClass(app, auth_type), User_users, request)
         ELSE BeforeRequest0x02(AuthClass(app, auth_type), User_users, request)
  /\ fl_pc' = "done"
  /\ UNCHANGED <<app, auth_type, request, User_users, service, policy, basic,
                 hashing, threads>>

\* Request paths: '/api/v1/status', '/api/v1/status/', '/api/v1/users',
\* '/api/v1/users/'.
RequestPaths ==
  { <<47, 97, 112, 105, 47, 118, 49, 47, 115, 116, 97, 116, 117, 115>>,
    <<47, 97, 112, 105, 47, 118, 49, 47, 115, 116, 97, 116, 117, 115, 47>>,
    <<47, 97, 112, 105, 47, 118, 49, 47, 117, 115, 101, 114, 115>>,
    <<47, 97, 112, 105, 47, 118, 49, 47, 117, 115, 101, 114, 115, 47>> }

\* Authorization headers: 'garbage'; 'Basic YTpw' (a:p); 'Basic YTpx'
\* (a:q); 'Basic YXA=' (ap, no colon); 'Basic YTp' (incorrect padding);
\* 'Basic /w==' (byte 0xFF, not UTF-8).
RequestHeaders ==
  { <<103, 97, 114, 98, 97, 103, 101>>,
    <<66, 97, 115, 105, 99, 32, 89, 84, 112, 119>>,
    <<66, 97, 115, 105, 99, 32, 89, 84, 112, 120>>,
    <<66, 97, 115, 105, 99, 32, 89, 88, 65, 61>>,
    <<66, 97, 115, 105, 99, 32, 89, 84, 112>>,
    <<66, 97, 115, 105, 99, 32, 47, 119, 61, 61>> }

\* User.users: empty; user 'a' whose password 'p' was assigned through the
\* setter; user 'a' constructed with password 'p'.
UserStores ==
  { <<>>,
    <<SetPassword(NewUser(PyStr(<<97>>), PyNone), PyStr(<<112>>))>>,
    <<NewUser(PyStr(<<97>>), PyStr(<<112>>))>> }

InitFilter ==
  /\ ServiceInit
  /\ OthersIdle
  /\ PolicyIdle
  /\ BasicIdle
  /\ app \in {"0x01", "0x02"}
  /\ auth_type \in {"auth", "basic_auth"}
  /\ request \in [path : {PyStr(p) : p \in RequestPaths},
                  Authorization : {PyNone} \cup
                                  {PyStr(h) : h \in RequestHeaders},
                  cookie : {PyNone, PyStr(<<99>>)}]
  /\ User_users \in UserStores
  /\ fl_pc = "call"
  /\ response = Respond("none", PyNone)

NextFilter == BeforeRequest

SpecFilter == InitFilter /\ [][NextFilter]_vars

(***************************************************************************)
(* Part IV.  BasicAuth.current_user called on a request                    *)
(***************************************************************************)
\* auth.current_user(request) for auth = BasicAuth().
CurrentUserCall ==
  /\ fl_pc = "call"
  /\ response' = Respond("returned",
                         current_user("BasicAuth", User_users, request))
  /\ fl_pc' = "done"
  /\ UNCHANGED <<app, auth_type, request, User_users, service, policy, basic,
                 hashing, threads>>

\* More Authorization headers: 'Basic Yjpw' (b:p); 'Basic YTpwOnE='
\* (a:p:q); 'Basic OnA=' (:p); 'Basic '; 'basic YTpw'; 'BasicYTpw';
\* 'Basic  YTpw' (two spaces); 'Basic ' followed by U+00E9.
ResolveHeaders ==
  RequestHeaders \cup
  { <<66, 97, 115, 105, 99, 32, 89, 106, 112, 119>>,
    <<66, 97, 115, 105, 99, 32, 89, 84, 112, 119, 79, 110, 69, 61>>,
    <<66, 97, 115, 105, 99, 32, 79, 110, 65, 61>>,
    <<66, 97, 115, 105, 99, 32>>,
    <<98, 97, 115, 105, 99, 32, 89, 84, 112, 119>>,
    <<66, 97, 115, 105, 99, 89, 84, 112, 119>>,
    <<66, 97, 115, 105, 99, 32, 32, 89, 84, 112, 119>>,
    <<66, 97, 115, 105, 99, 32, 233>> }

\* More contents of User.users: user 'a' with password 'p:q'; two users
\* 'a', the first with password 'x' and the second with 'p'; user '' with
\* password 'p'.
ResolveStores ==
  UserStores \cup
  { <<SetPassword(NewUser(PyStr(<<97>>), PyNone), PyStr(<<112, 58, 113>>))>>,
    <<SetPassword(NewUser(PyStr(<<97>>), PyNone), PyStr(<<120>>)),
      SetPassword(NewUser(PyStr(<<97>>), PyNone), PyStr(<<112>>))>>,
    <<SetPassword(NewUser(PyStr(<<>>), PyNone), PyStr(<<112>>))>> }

InitResolve ==
  /\ ServiceInit
  /\ PolicyIdle
  /\ BasicIdle
  /\ OthersIdle
  /\ app = "0x02"
  /\ auth_type = "basic_auth"
  /\ request \in [path : {PyStr(p) : p \in RequestPaths},
                  Authorization : {PyNone} \cup
                                  {PyStr(h) : h \in ResolveHeaders},
                  cookie : {PyNone}]
  /\ User_users \in ResolveStores
  /\ fl_pc = "call"
  /\ response = Respond("none", PyNone)

NextResolve == CurrentUserCall

SpecResolve == InitResolve /\ [][NextResolve]_vars

(***************************************************************************)
(* Part V.  0x00-personal_data/encrypt_password.py                         *)
(***************************************************************************)
MaxHashes == 2

\* The values bcrypt.gensalt() returns, in the order drawn: 16 random
\* bytes each, no value twice.
SaltsDrawn == <<"s1", "s2", "s3", "s4">>
gensalt(n) == SaltsDrawn[n + 1]

\* A password of more than 72 bytes makes bcrypt 5.0 raise ValueError,
\* where the versions before it go on with the first 72 bytes.
TooLong(password, long) ==
  Len(password) > BcryptMaxLen /\ long = "ValueError"

\* hash_password(password); the str is the sequence of its bytes.
hash_password(password, salt, long) ==
  IF TooLong(password, long) THEN Failed ELSE Ok(hashpw(password, salt))

\* is_valid(hashed_password, password)
is_valid(hashed_password, password, long) ==
  IF TooLong(password, long) THEN Failed
  ELSE Ok(checkpw(password, hashed_password))

\* hash_password(hp_password), called.
HashPasswordCall ==
  /\ Len(hp_hashes) < MaxHashes
  /\ hp_hashes' = Append(hp_hashes,
                         hash_password(hp_password, gensalt(hp_salts),
                                       bcrypt_long))
  /\ hp_salts' = hp_salts + 1
  /\ UNCHANGED <<hp_password, hp_other, hp_checks, bcrypt_long>>
  /\ UNCHANGED <<service, policy, basic, filter, threads>>

\* is_valid(h, password), called on the i-th hash computed.
IsValidCall(i, password) ==
  /\ hp_hashes[i].ok
  /\ hp_checks' = hp_checks \cup
                    {[hash |-> i, password |-> password,
                      outcome |-> is_valid(hp_hashes[i].v, password,
                                           bcrypt_long)]}
  /\ UNCHANGED <<hp_password, hp_other, hp_hashes, hp_salts, bcrypt_long>>
  /\ UNCHANGED <<service, policy, basic, filter, threads>>

\* Passwords: '', 'a', 'b' and those behind 71 and 72 letters 'a'.
Pad(n) == [i \in 1..n |-> 97]
HashPasswords ==
  {Pad(n) \o tail : n \in {0, BcryptMaxLen - 1, BcryptMaxLen},
                    tail \in {<<>>, <<97>>, <<98>>}}

InitHashing ==
  /\ ServiceInit
  /\ PolicyIdle
  /\ BasicIdle
  /\ FilterIdle
  /\ ThreadsIdle
  /\ hp_password \in HashPasswords
  /\ hp_other \in HashPasswords
  /\ hp_hashes = <<>>
  /\ hp_salts = 0
  /\ hp_checks = {}
  /\ bcrypt_long \in {"truncate", "ValueError"}

NextHashing ==
  \/ HashPasswordCall
  \/ \E i \in DOMAIN hp_hashes : \E p \in {hp_password, hp_other} :
       IsValidCall(i, p)

SpecHashing == InitHashing /\ [][NextHashing]_vars

(***************************************************************************)
(* Part I.  Properties of the authentication service                       *)
(***************************************************************************)
RowOf(db, uid) == db[CHOOSE i \in DOMAIN db : db[i].id = uid]
Stored(db, uid) == \E i \in DOMAIN db : db[i].id = uid
WithEmail(db, e) == {i \in DOMAIN db : db[i].email = e}

\* C1: registering the same email twice.  A register_user(e, p) for an
\* email e not in the store succeeds and returns a User whose email reads
\* e; a register_user(e, p') for an email already stored raises ValueError
\* and the store keeps exactly one record with email e.
C1_Step ==
  \A e \in Emails, p \in Passwords, s \in Salts :
    RegisterUser(e, p, s) =>
      IF WithEmail(users, e) = {}
        THEN /\ ret'.exc = None
             /\ AttrRead(ret'.val, "email") = e
             /\ Cardinality(WithEmail(users', e)) = 1
        ELSE /\ ret'.exc = "ValueError"
             /\ users' = users
C1_RegisterSameEmailTwice == [][C1_Step]_vars

\* C2: the session id create_session returned for a user resolves, through
\* get_user_from_session_id, to that user (its email) for as long as no
\* later create_session or destroy_session was performed for the user.
C2_LiveSessionResolves ==
  \A i \in DOMAIN users :
    LET t == liveSession[users[i].id] IN
    t # None => get_user_from_session_id(users, t) = users[i].email

\* C3: after destroy_session for a stored user, and until a new session is
\* created for it, no session id issued to that user resolves.
C3_DestroyedSessionsDoNotResolve ==
  \A i \in DOMAIN users :
    liveSession[users[i].id] = None =>
      \A t \in sessionsIssued[users[i].id] :
        get_user_from_session_id(users, t) = None

\* C3, witness: destroy_session has just run for a stored user that had
\* been issued a session id.
C3_Witness ==
  /\ ret.op = "destroy_session"
  /\ ret.exc = None
  /\ Stored(users, ret.args.user_id)
  /\ sessionsIssued[ret.args.user_id] # {}
  /\ liveSession[ret.args.user_id] = None

\* C4: valid_login(email, password) is true exactly when a user with that
\* email is stored and the password is the one most recently set for it, by
\* registration or by an update_password that reported success.
C4_LoginIffLatestPassword ==
  \A e \in Emails, p \in Passwords :
    valid_login(users, e, p) <=> (WithEmail(users, e) # {} /\ lastSet[e] = p)

\* C5: a reset token is single-use.  update_password with the token that
\* get_reset_password_token last returned for a user, not used since,
\* succeeds and sets the password; update_password with a token that a
\* call already consumed raises ValueError and leaves the store as it was.
C5_Step ==
  \A t \in TokenArgs, p \in Passwords, s \in Salts :
    UpdatePassword(t, p, s) =>
      /\ \A i \in DOMAIN users :
           (t # None /\ liveReset[users[i].id] = t) =>
             /\ ret'.exc = None
             /\ checkpw(p, users'[i].hashed_password)
      /\ (t # None /\ t \in consumed) =>
             /\ ret'.exc = "ValueError"
             /\ users' = users
C5_ResetTokenSingleUse == [][C5_Step]_vars

\* C6: after an update_password(T, newpw) that reported success for a
\* user, valid_login accepts newpw for that user and rejects every other
\* password, the previous one included.
C6_LoginAfterReset ==
  (ret.op = "update_password" /\ ret.exc = None) =>
    \A p \in Passwords :
      valid_login(users, ret.args.email, p) <=> (p = ret.args.password)

\* C11: at most one live session per user.  When create_session was called
\* twice for a user, returning t1 and then t2, t2 resolves to the user and
\* t1 resolves to no one.
C11_SecondSessionReplacesFirst ==
  \A i \in DOMAIN users :
    LET uid == users[i].id
        t2 == liveSession[uid]
    IN (t2 # None /\ Cardinality(sessionsIssued[uid]) >= 2) =>
         /\ get_user_from_session_id(users, t2) = users[i].email
         /\ \A t1 \in sessionsIssued[uid] \ {t2} :
              get_user_from_session_id(users, t1) = None

\* C12, as claimed: destroy_session for a user id that is not stored does
\* not raise, and its outcome tells the caller that the user was not found.
C12_AbsentStep ==
  (ret'.op = "destroy_session" /\ ~Stored(users, ret'.args.user_id)) =>
    /\ ret'.exc = None
    /\ ret'.val # None
C12_AbsentUserSignalled == [][C12_AbsentStep]_vars

\* C12, amended: destroy_session for a user id that is not stored does not
\* raise, returns None as it does for a stored user, and leaves the store
\* as it was.
C12_SilentStep ==
  (ret'.op = "destroy_session" /\ ~Stored(users, ret'.args.user_id)) =>
    /\ ret'.exc = None
    /\ ret'.val = None
    /\ users' = users
C12_AbsentUserIgnored == [][C12_SilentStep]_vars

\* C12, witness: destroy_session has returned for a user id that is not
\* stored, next to a user that is.
C12_Witness ==
  /\ ret.op = "destroy_session"
  /\ ~Stored(users, ret.args.user_id)
  /\ users # <<>>
  /\ ret.exc = None

\* The column names the claim calls recognized.
Recognized == {"hashed_password", "session_id", "reset_token"}
Keys(kwargs) == {kwargs[i][1] : i \in DOMAIN kwargs}

\* C13, as claimed: update_user raises NoResultFound for a user id that is
\* not stored, and ValueError for a stored one when a key is outside
\* hashed_password, session_id, reset_token (email and id, for example).
C13_RecognizedStep ==
  ret'.op = "update_user" =>
    LET u == ret'.args.user_id
        k == ret'.args.kwargs
    IN IF ~Stored(users, u) THEN ret'.exc = "NoResultFound"
       ELSE ~(Keys(k) \subseteq Recognized) => ret'.exc = "ValueError"
C13_RejectsUnrecognizedFields == [][C13_RecognizedStep]_vars

\* C13, amended: update_user raises NoResultFound for a user id that is not
\* stored; for a stored one it raises ValueError exactly when a key is no
\* attribute of the User, and email, id and the other attributes are
\* accepted like the three token and password columns.
C13_AttributeStep ==
  ret'.op = "update_user" =>
    LET u == ret'.args.user_id
        k == ret'.args.kwargs
    IN IF ~Stored(users, u) THEN ret'.exc = "NoResultFound"
       ELSE IF "nickname" \in Keys(k) THEN ret'.exc = "ValueError"
       ELSE ret'.exc = None
C13_RejectsNonAttributes == [][C13_AttributeStep]_vars

\* C13, witness: update_user has accepted email and id for a stored user.
C13_Witness ==
  /\ ret.op = "update_user"
  /\ Stored(users, ret.args.user_id)
  /\ Keys(ret.args.kwargs) = {"email", "id"}
  /\ ret.exc = None

\* C14: update_user is all-or-nothing.  When the call raises, for a user
\* id that is not stored or for a key that is rejected after keys that were
\* accepted, every stored record is what it was before the call.
C14_Step ==
  (ret'.op = "update_user" /\ ret'.exc # None) => users' = users
C14_FailedUpdateAppliesNothing == [][C14_Step]_vars

\* C14, witness: update_user has raised ValueError for a stored user on
\* its second key, after a first key that names a column.
C14_Witness ==
  /\ ret.op = "update_user"
  /\ Stored(users, ret.args.user_id)
  /\ Len(ret.args.kwargs) = 2
  /\ ret.args.kwargs[1][1] \in Recognized
  /\ ret.args.kwargs[2][1] = "nickname"
  /\ ret.exc = "ValueError"

\* C15: find_user_by returns the one matching user; it raises
\* NoResultFound when no record matches, and another error, with no user
\* returned, when more than one record matches.
C15_Step ==
  ret'.op = "find_user_by" =>
    LET k == ret'.args.key
        v == IF k = "id" THEN ret'.args.user_id
             ELSE IF k = "email" THEN ret'.args.email
             ELSE ret'.args.token
        hits == {i \in DOMAIN users : users[i][k] = v}
    IN IF hits = {} THEN ret'.exc = "NoResultFound" /\ ret'.val = None
       ELSE IF Cardinality(hits) = 1
         THEN /\ ret'.exc = None
              /\ \A i \in hits : ret'.val.attrs = users[i]
              /\ ~ret'.val.expired
       ELSE /\ ret'.exc \notin {None, "NoResultFound"}
            /\ ret'.val = None
C15_FindByOneNoneOrMany == [][C15_Step]_vars

\* C15, witness: find_user_by has raised InvalidRequestError because two
\* records match.
C15_Witness ==
  /\ ret.op = "find_user_by"
  /\ ret.args.key = "reset_token"
  /\ Len(users) = 2
  /\ ret.exc = "InvalidRequestError"

\* C20: email uniqueness under concurrent register_user calls.  In every
\* state at most one record has a given email; and of two register_user
\* calls for the same email that have both returned, whichever way their
\* steps interleaved, exactly one has succeeded and the other has raised.
C20_EmailUniqueUnderRace ==
  /\ \A e \in Emails : Cardinality(WithEmail(users, e)) <= 1
  /\ \A t1, t2 \in Threads :
       (/\ t1 # t2
        /\ th_pc[t1] = "done" /\ th_pc[t2] = "done"
        /\ th_call[t1].args.email = th_call[t2].args.email) =>
         (th_ret[t1].exc = None) # (th_ret[t2].exc = None)

\* C20, witness: two register_user calls for the same email both passed
\* the existence check before either added; the first to add succeeded and
\* the other was refused by the unique email column.
C20_Witness ==
  \E t1, t2 \in Threads :
    /\ th_call[t1].args.email = th_call[t2].args.email
    /\ th_pc[t1] = "done" /\ th_pc[t2] = "done"
    /\ th_ret[t1].exc = None
    /\ th_ret[t2].exc = "IntegrityError"
    /\ Cardinality(WithEmail(users, th_call[t1].args.email)) = 1

\* C18: issuing a reset token overwrites the prior one.  Once
\* get_reset_password_token returned T1 and later T2 for a user,
\* update_password(T1, p) raises ValueError and update_password(T2, p)
\* succeeds; get_reset_password_token for an email that is not stored
\* raises ValueError and leaves the store as it was.
C18_Step ==
  /\ \A t \in TokenArgs, p \in Passwords, s \in Salts :
       UpdatePassword(t, p, s) =>
         \A i \in DOMAIN users :
           LET uid == users[i].id IN
           (Cardinality(resetsIssued[uid]) >= 2 /\ liveReset[uid] # None) =>
             /\ t = liveReset[uid] => ret'.exc = None
             /\ t \in resetsIssued[uid] \ {liveReset[uid]} =>
                  ret'.exc = "ValueError"
  /\ \A e \in Emails :
       (GetResetPasswordToken(e) /\ WithEmail(users, e) = {}) =>
         /\ ret'.exc = "ValueError"
         /\ users' = users
C18_SecondResetTokenReplacesFirst == [][C18_Step]_vars

\* The columns an Auth call may write, and the row it may write them in.
Allowed(op) ==
  CASE op \in {"create_session", "destroy_session"} -> {"session_id"}
    [] op = "get_reset_password_token" -> {"reset_token"}
    [] op = "update_password" -> {"hashed_password", "reset_token"}
    [] OTHER -> {}
IsTarget(row, call) ==
  CASE call.op \in {"create_session", "get_reset_password_token"} ->
         row.email = call.args.email
    [] call.op = "destroy_session" -> row.id = call.args.user_id
    [] call.op = "update_password" -> row.reset_token = call.args.token
    [] OTHER -> FALSE

\* C19: each call touches only its own columns of its own user.  In every
\* step no record is removed, and a column of a stored record changes only
\* if the record is the call's target and the column is one the call owns:
\* session_id for create_session and destroy_session, reset_token for
\* get_reset_password_token, hashed_password and reset_token for
\* update_password (so session_id survives a password reset).
C19_Step ==
  \A i \in DOMAIN users :
    /\ i \in DOMAIN users'
    /\ \A a \in UserAttrs :
         users'[i][a] # users[i][a] =>
           (IsTarget(users[i], ret') /\ a \in Allowed(ret'.op))
C19_OwnFieldsOfOwnUser == [][C19_Step]_vars

\* C19, witness: create_session has returned a session id for one of two
\* stored users.
C19_Witness ==
  /\ ret.op = "create_session"
  /\ ret.exc = None
  /\ ret.val # None
  /\ Len(users) = 2

(***************************************************************************)
(* Part II.  Properties of require_auth                                    *)
(***************************************************************************)
\* The two spellings of one path: s without a trailing slash and s with
\* it.  A string whose slash-less form still ends in '/' has one spelling.
SlashVariants(s) ==
  IF ~endswith(s, <<Slash>>) THEN {s, Append(s, Slash)}
  ELSE LET base == SubSeq(s, 1, Len(s) - 1) IN
       IF endswith(base, <<Slash>>) THEN {s} ELSE {base, s}

IsWildcard(rule) == endswith(rule, <<Star>>)

\* A path or rule that names something: not '' and not '/'.
Named(s) == s # <<>> /\ s # <<Slash>>

\* A rule matches a path that carries its trailing slash.
RuleMatches(p, rule) ==
  IF IsWildcard(rule) THEN startswith(p, SubSeq(rule, 1, Len(rule) - 1))
  ELSE p = rule

RemoveAt(l, i) == SubSeq(l, 1, i - 1) \o SubSeq(l, i + 1, Len(l))

\* C8, as claimed: both sides are normalised, so the answer is the same
\* whichever spelling, with or without the trailing slash, is used for the
\* path and for any exact (non-wildcard) rule.
C8_BothSidesNormalised ==
  (ra_pc = "done" /\ ~IsNone(path) /\ ~IsNone(excluded_paths)
                  /\ Named(path.v)) =>
    \A p \in SlashVariants(path.v) :
      /\ require_auth(PyStr(p), excluded_paths) = ra_ret
      /\ \A i \in DOMAIN excluded_paths.v :
           (\A r \in SlashVariants(excluded_paths.v[i]) :
              ~IsWildcard(r) /\ Named(r)) =>
             \A r \in SlashVariants(excluded_paths.v[i]) :
               require_auth(PyStr(p),
                            PyList([excluded_paths.v EXCEPT ![i] = r])) = ra_ret

\* C8, amended: only the path is normalised.  The answer is the same for
\* both spellings of the path, whatever the rules; a rule is compared as
\* written, so an exact rule written without the trailing slash exempts
\* nothing: the answer is the same with that rule removed.
C8_PathSideNormalised ==
  (ra_pc = "done" /\ ~IsNone(path) /\ ~IsNone(excluded_paths)) =>
    /\ \A p \in SlashVariants(path.v) :
         require_auth(PyStr(p), excluded_paths) = ra_ret
    /\ \A i \in DOMAIN excluded_paths.v :
         LET rule == excluded_paths.v[i] IN
         (~IsWildcard(rule) /\ ~endswith(rule, <<Slash>>)) =>
           require_auth(path, PyList(RemoveAt(excluded_paths.v, i))) = ra_ret

\* C8, witness: a path written without the slash is exempted by an exact
\* rule written with it, next to an exact rule written without it.
C8_Witness ==
  /\ ra_pc = "done"
  /\ ~IsNone(path) /\ ~IsNone(excluded_paths)
  /\ ~endswith(path.v, <<Slash>>)
  /\ Len(path.v) > 0
  /\ excluded_paths.v = <<path.v, Append(path.v, Slash)>>
  /\ ra_ret = FALSE

\* C9: require_auth returns False exactly when the path is not None and at
\* least one rule matches the path with its trailing slash (a rule ending
\* in '*' by prefix, any other by equality); it returns True for a None
\* path, a None or empty rule list, or when no rule matches; and the answer
\* does not depend on the order of the rules.
C9_ExemptIffSomeRuleMatches ==
  ra_pc = "done" =>
    /\ ra_ret = ~(/\ ~IsNone(path)
                  /\ ~IsNone(excluded_paths)
                  /\ \E i \in DOMAIN excluded_paths.v :
                       RuleMatches(AppendSlash(path.v), excluded_paths.v[i]))
    /\ ~IsNone(excluded_paths) =>
         \A f \in Permutations(DOMAIN excluded_paths.v) :
           require_auth(path,
                        PyList([i \in DOMAIN excluded_paths.v |->
                                  excluded_paths.v[f[i]]])) = ra_ret

\* C9, witness: the first rule does not match, the second, a wildcard
\* rule, does, and the path is exempt.
C9_Witness ==
  /\ ra_pc = "done"
  /\ ~IsNone(path) /\ ~IsNone(excluded_paths)
  /\ Len(excluded_paths.v) = 2
  /\ ~RuleMatches(AppendSlash(path.v), excluded_paths.v[1])
  /\ IsWildcard(excluded_paths.v[2])
  /\ Len(excluded_paths.v[2]) > 1
  /\ RuleMatches(AppendSlash(path.v), excluded_paths.v[2])
  /\ ra_ret = FALSE

(***************************************************************************)
(* Part III.  Properties of credential parsing                             *)
(***************************************************************************)
\* C10: extract_user_credentials splits on the first colon only.  For a
\* str containing a colon the result (id, secret) gives back the input as
\* id + ':' + secret and id contains no colon; for a str without a colon,
\* for None and for a value that is not a str the result is (None, None).
C10_SplitOnFirstColon ==
  cred_pc = "done" =>
    IF decoded.type = "str" /\ Colon \in Range(decoded.v)
      THEN /\ cred_ret[1].type = "str"
           /\ cred_ret[2].type = "str"
           /\ cred_ret[1].v \o <<Colon>> \o cred_ret[2].v = decoded.v
           /\ Colon \notin Range(cred_ret[1].v)
      ELSE cred_ret = <<PyNone, PyNone>>

\* C10, witness: 'a:b:a' was split into ('a', 'b:a').
C10_Witness ==
  /\ cred_pc = "done"
  /\ decoded = PyStr(<<97, Colon, 98, Colon, 97>>)
  /\ cred_ret = <<PyStr(<<97>>), PyStr(<<98, Colon, 97>>)>>

(***************************************************************************)
(* Part IV.  Properties of the request filter                              *)
(***************************************************************************)
\* The request needs authentication: an auth object is configured and the
\* path is not exempt under the app's excluded_paths.
Protected ==
  /\ AuthClass(app, auth_type) # None
  /\ require_auth(request.path,
                  PyList(IF app = "0x01" THEN Excluded0x01 ELSE Excluded0x02))

\* C7: on a protected path the filter keeps 401 and 403 apart: a request
\* with no Authorization header and no session cookie is answered 401; a
\* request whose Authorization header does not resolve to a user is
\* answered 403, never 401 and never let through.
C7_Keeps401And403Apart ==
  (fl_pc = "done" /\ Protected) =>
    /\ (IsNone(request.Authorization) /\ IsNone(request.cookie)) =>
         response.status = "401"
    /\ (/\ ~IsNone(request.Authorization)
        /\ IsNone(current_user(AuthClass(app, auth_type), User_users, request)))
         => response.status = "403"

\* The stages of resolving an Authorization header h against the users
\* `all`: the text the header carries after 'Basic ', and the first user
\* with the email that precedes the first colon of that text.
HeaderText(h) ==
  IF IsNone(h) \/ ~startswith(h.v, BasicPrefix) THEN Failed
  ELSE LET bytes == b64decode(SubSeq(h.v, Len(BasicPrefix) + 1, Len(h.v))) IN
       IF bytes.ok THEN Utf8Decode(bytes.v, 1, <<>>) ELSE Failed
FirstColon(text) ==
  CHOOSE k \in DOMAIN text :
    text[k] = Colon /\ \A j \in 1..(k - 1) : text[j] # Colon
WithEmailOf(all, text) ==
  {i \in DOMAIN all :
     /\ all[i].email.type = "str"
     /\ all[i].email.v = SubSeq(text, 1, FirstColon(text) - 1)}
Resolves(all, h) ==
  LET text == HeaderText(h) IN
  /\ text.ok
  /\ Colon \in Range(text.v)
  /\ WithEmailOf(all, text.v) # {}
  /\ LET first == CHOOSE i \in WithEmailOf(all, text.v) :
                     \A j \in WithEmailOf(all, text.v) : i <= j
     IN is_valid_password(all[first],
                          PyStr(SubSeq(text.v, FirstColon(text.v) + 1,
                                       Len(text.v))))

\* C16: BasicAuth.current_user returns a user only when every stage
\* succeeds: the header starts with 'Basic ', the rest base64-decodes to
\* UTF-8 text, the text contains a colon, a stored user has the email
\* before the first colon, and the password after it verifies for that
\* user; the user returned is that one.  When a stage fails the call
\* returns None; it returns in every case.
C16_UserOnlyWhenEveryStageSucceeds ==
  fl_pc = "done" =>
    /\ response.status = "returned"
    /\ IF Resolves(User_users, request.Authorization)
         THEN /\ ~IsNone(response.current_user)
              /\ response.current_user \in Range(User_users)
              /\ response.current_user.email.v =
                   SubSeq(HeaderText(request.Authorization).v, 1,
                          FirstColon(HeaderText(request.Authorization).v) - 1)
         ELSE IsNone(response.current_user)

\* C16, witness: the header 'Basic YTpwOnE=' (a:p:q) has resolved to user
\* 'a', whose password is 'p:q'.
C16_Witness ==
  /\ fl_pc = "done"
  /\ request.Authorization =
       PyStr(<<66, 97, 115, 105, 99, 32, 89, 84, 112, 119, 79, 110, 69, 61>>)
  /\ ~IsNone(response.current_user)
  /\ response.current_user.email = PyStr(<<97>>)

(***************************************************************************)
(* Part V.  Properties of password hashing                                 *)
(***************************************************************************)
\* The round trip for the passwords that satisfy `covered`.
RoundTrip(covered(_)) ==
  /\ covered(hp_password) =>
       /\ \A i \in DOMAIN hp_hashes : hp_hashes[i].ok
       /\ \A i, j \in DOMAIN hp_hashes :
            i # j => hp_hashes[i] # hp_hashes[j]
  /\ \A c \in hp_checks :
       (covered(hp_password) /\ covered(c.password)) =>
         /\ c.outcome.ok
         /\ c.outcome.v <=> (c.password = hp_password)

AnyPassword(p) == TRUE
UpTo72Bytes(p) == Len(p) <= 72

C23_Step ==
  /\ ret'.op = "get_user_from_session_id" =>
       \A i \in DOMAIN users :
         users[i].session_id = None => ret'.val # users[i].email
  /\ (/\ ret'.op = "update_password"
      /\ \A i \in DOMAIN users :
           \/ users[i].reset_token = None
           \/ users[i].reset_token # ret'.args.token) =>
       /\ ret'.exc = "ValueError"
       /\ users' = users
C23_NullTokenNeverCredential == [][C23_Step]_vars

\* C24: a failing use case leaves the store unchanged.  A register_user
\* for an email already stored, a valid_login that returns False, a
\* create_session or get_reset_password_token for an email that is not
\* stored, an update_password with a token no user holds and a
\* destroy_session for a user id that is not stored, and any call that
\* raises, leave every record exactly as it was before the call.
Fails(db, call) ==
  \/ call.exc # None
  \/ call.op = "register_user" /\ WithEmail(db, call.args.email) # {}
  \/ call.op = "valid_login" /\ call.val = FALSE
  \/ /\ call.op \in {"create_session", "get_reset_password_token"}
     /\ WithEmail(db, call.args.email) = {}
  \/ /\ call.op = "update_password"
     /\ \A i \in DOMAIN db : \/ db[i].reset_token = None
                              \/ db[i].reset_token # call.args.token
  \/ call.op = "destroy_session" /\ ~Stored(db, call.args.user_id)

C24_Step == Fails(users, ret') => users' = users
C24_FailuresChangeNothing == [][C24_Step]_vars

\* C24, witness: a register_user for a stored email with another password
\* has raised ValueError on a store whose user had been issued a session
\* id and a reset token; the password stored is still the one set before.
C24_Witness ==
  /\ ret.op = "register_user"
  /\ ret.exc = "ValueError"
  /\ \E i \in DOMAIN users :
       /\ users[i].email = ret.args.email
       /\ sessionsIssued[users[i].id] # {}
       /\ resetsIssued[users[i].id] # {}
       /\ ~checkpw(ret.args.password, users[i].hashed_password)
       /\ checkpw(lastSet[ret.args.email], users[i].hashed_password)

(***************************************************************************)
(* Part I.  Properties of the token calls in concurrent threads            *)
(***************************************************************************)
\* Thread t has returned from the call `op`.
Returned(t, op) == th_call[t].op = op /\ th_pc[t] = "done"

C22_RacingUpdatesBothKept ==
  /\ \A t1, t2 \in Threads, i \in DOMAIN users :
       (/\ Returned(t1, "update_password")
        /\ Returned(t2, "create_session")
        /\ th_call[t1].args.token # None
        /\ th_call[t1].args.token \in th_issued[t1]
        /\ th_call[t1].args.token \in resetsIssued[users[i].id]
        /\ Cardinality(resetsIssued[users[i].id]) = 1
        /\ th_call[t2].args.email = users[i].email) =>
         /\ checkpw(th_call[t1].args.password, users[i].hashed_password)
         /\ users[i].reset_token = None
         /\ th_ret[t2].val # None
         /\ users[i].session_id = th_ret[t2].val
  /\ \A t \in Threads, i \in DOMAIN users :
       (/\ th_call[t].op = "update_password"
        /\ th_call[t].args.token # None
        /\ th_call[t].args.password # RegisteredPassword
        /\ users[i].reset_token = th_call[t].args.token) =>
         ~checkpw(th_call[t].args.password, users[i].hashed_password)
====
